---- MODULE Spec2Model ----
(***************************************************************************)
(* The query worker of libbitcoin-server (src/workers/query_worker.cpp):   *)
(* its connection lifecycle (work, connect, disconnect), the dispatch of   *)
(* one request per loop iteration (query), the transmission of responses   *)
(* (send) and the command registry built by the constructor                *)
(* (attach_interface).  The worker thread advances through pc; the stop    *)
(* signal and the handlers' asynchronous completions are other threads.    *)
(***************************************************************************)
EXTENDS Naturals, Sequences, FiniteSets, TLC

\* The most request envelopes the dealer delivers in one run.
MaxRequests == 2

\* The same, in the runs that draw requests from every command name.
MaxAllRequests == 1

VARIABLES
    secure_,            \* the worker's secure flag
    command_handlers_,  \* the registry: command string -> handler
    pc,                 \* the worker thread's position in work()/query()
    stop,               \* the cooperative stopped flag of the worker
    terminated,         \* poller.terminated()
    dealer,             \* the socket local to work(): [state, endpoint]
    outgoing,           \* the response the worker thread is sending, or NoRequest
    pending,            \* sinks held by handlers that complete asynchronously
    received,           \* every completed receive: [msg, ec]
    lookups,            \* the receives for which the registry was searched
    invoked,            \* every handler invocation
    sent,               \* every write attempted on a socket
    run,                \* counts of connect/disconnect, results of started/finished,
                        \* whether the wait of this iteration reported the dealer
    stopSeen,           \* what had been received/invoked when stop hit the wait
    stopAt,             \* what had been received when stop was set, and where
    hazard              \* whether a write was made while the worker thread was
                        \* inside a receive or a write of its own (overlapped),
                        \* or while the dealer was not connected (closed)

vars == <<secure_, command_handlers_, pc, stop, terminated, dealer,
          outgoing, pending, received, lookups, invoked, sent, run, stopSeen,
          stopAt, hazard>>

-----------------------------------------------------------------------------
\* Error codes.

success == "success"
service_stopped == "service_stopped"
not_found == "not_found"
bad_stream == "bad_stream"
operation_failed == "operation_failed"

\* What request.receive(dealer) may report.
ReceiveCodes == {success, service_stopped, bad_stream}

\* What response.send(dealer) may report.
SendCodes == {success, service_stopped, operation_failed}

-----------------------------------------------------------------------------
\* Endpoints of the query service.

secure_worker == "inproc://secure_query"
public_worker == "inproc://public_query"

\* connect() with the selection of the endpoint left out.
Endpoint_public_only(secure) == public_worker

\* The endpoint connect() selects.
Endpoint(secure) == IF secure THEN secure_worker ELSE public_worker

\* The name connect()/disconnect() log.
Security(secure) == IF secure THEN "secure" ELSE "public"

-----------------------------------------------------------------------------
\* Envelopes.

NoRoute == ""
NoRequest == [none |-> TRUE]

\* message(secure): the envelope query() constructs before receiving into it.
message(secure) ==
    [route |-> NoRoute, command |-> "", payload |-> "", error |-> success,
     secure |-> secure]

\* message(request, ec): the response built from a request and a code.
message_response(req, ec) ==
    [route |-> req.route, command |-> req.command, payload |-> "",
     error |-> ec, secure |-> req.secure]

\* What goes on the wire of an envelope (the secure flag is local).
Wire(m) == [route |-> m.route, command |-> m.command, payload |-> m.payload,
            error |-> m.error]

-----------------------------------------------------------------------------
\* The registry.

\* The handler ATTACH binds: bc::server::class_name::method_name.
Handler(class_name, method_name) ==
    [class |-> class_name, method |-> method_name]

\* command_handlers_[command] = handler.
attach(handlers, command, handler) ==
    [c \in DOMAIN handlers \cup {command} |->
        IF c = command THEN handler ELSE handlers[c]]

\* ATTACH(class_name, method_name, node).
ATTACH(handlers, class_name, method_name) ==
    attach(handlers, class_name \o "." \o method_name,
           Handler(class_name, method_name))

\* attach_interface() with its first line, ATTACH(address, renew, node_),
\* compiled again.
Interface_renew ==
    << <<"address", "renew">>,
       <<"address", "subscribe2">>,
       <<"address", "unsubscribe2">>,
       <<"blockchain", "fetch_block_header">>,
       <<"blockchain", "fetch_block_height">>,
       <<"blockchain", "fetch_block_transaction_hashes">>,
       <<"blockchain", "fetch_last_height">>,
       <<"blockchain", "fetch_transaction">>,
       <<"blockchain", "fetch_transaction_index">>,
       <<"blockchain", "fetch_spend">>,
       <<"blockchain", "fetch_history2">>,
       <<"blockchain", "fetch_stealth2">>,
       <<"blockchain", "fetch_stealth_transaction">>,
       <<"blockchain", "broadcast">>,
       <<"blockchain", "validate">>,
       <<"transaction_pool", "fetch_transaction">>,
       <<"transaction_pool", "broadcast">>,
       <<"transaction_pool", "validate2">>,
       <<"protocol", "total_connections">> >>

\* The ATTACH lines of attach_interface() that are compiled, in order.
Interface ==
    << <<"address", "subscribe2">>,
       <<"address", "unsubscribe2">>,
       <<"blockchain", "fetch_block_header">>,
       <<"blockchain", "fetch_block_height">>,
       <<"blockchain", "fetch_block_transaction_hashes">>,
       <<"blockchain", "fetch_last_height">>,
       <<"blockchain", "fetch_transaction">>,
       <<"blockchain", "fetch_transaction_index">>,
       <<"blockchain", "fetch_spend">>,
       <<"blockchain", "fetch_history2">>,
       <<"blockchain", "fetch_stealth2">>,
       <<"blockchain", "fetch_stealth_transaction">>,
       <<"blockchain", "broadcast">>,
       <<"blockchain", "validate">>,
       <<"transaction_pool", "fetch_transaction">>,
       <<"transaction_pool", "broadcast">>,
       <<"transaction_pool", "validate2">>,
       <<"protocol", "total_connections">> >>

\* The ATTACH lines that are commented out (obsoleted in v3).
Obsoleted ==
    << <<"address", "renew">>,
       <<"address", "subscribe">>,
       <<"address", "fetch_history">>,
       <<"blockchain", "fetch_stealth">>,
       <<"blockchain", "fetch_history">>,
       <<"transaction_pool", "validate">>,
       <<"protocol", "broadcast_transaction">> >>

RECURSIVE AttachAll(_, _, _)
AttachAll(handlers, entries, i) ==
    IF i > Len(entries) THEN handlers
    ELSE AttachAll(ATTACH(handlers, entries[i][1], entries[i][2]),
                   entries, i + 1)

\* attach_interface(): every compiled ATTACH applied to the empty map.
attach_interface == AttachAll(<<>>, Interface, 1)

\* The constructor: the members it sets.
query_worker(secure) ==
    [secure_ |-> secure, command_handlers_ |-> attach_interface]

-----------------------------------------------------------------------------
\* Requests the dealer may deliver.

\* The whole requests clients send here: two attached commands and an
\* obsoleted one, from two routes.
Requests(secure) ==
    {[route |-> "R1", command |-> "blockchain.fetch_last_height",
      payload |-> "P", error |-> success, secure |-> secure],
     [route |-> "R2", command |-> "address.subscribe2",
      payload |-> "P", error |-> success, secure |-> secure],
     [route |-> "R2", command |-> "address.renew",
      payload |-> "P", error |-> success, secure |-> secure]}

\* What request.receive(dealer) may leave in the envelope, by its code: a whole
\* request; nothing when the socket is stopped; the frames read so far when
\* the stream is bad (the route and the command, without a payload).
Receivable(secure, ec) ==
    IF ec = success THEN Requests(secure)
    ELSE IF ec = service_stopped THEN {message(secure)}
    ELSE {[route |-> "R2", command |-> "blockchain.fetch_last_height",
           payload |-> "", error |-> success, secure |-> secure]}

\* Every command name of the protocol's versions: the commands of the wire
\* contract, and the names obsoleted in v3.
CurrentCommands ==
    {"address.subscribe2", "address.unsubscribe2",
     "blockchain.fetch_block_header", "blockchain.fetch_block_height",
     "blockchain.fetch_block_transaction_hashes",
     "blockchain.fetch_last_height", "blockchain.fetch_transaction",
     "blockchain.fetch_transaction_index", "blockchain.fetch_spend",
     "blockchain.fetch_history2", "blockchain.fetch_stealth2",
     "blockchain.fetch_stealth_transaction", "blockchain.broadcast",
     "blockchain.validate", "transaction_pool.fetch_transaction",
     "transaction_pool.broadcast", "transaction_pool.validate2",
     "protocol.total_connections"}

ObsoletedCommands ==
    {"address.renew", "address.subscribe", "address.fetch_history",
     "blockchain.fetch_stealth", "blockchain.fetch_history",
     "transaction_pool.validate", "protocol.broadcast_transaction"}

\* The whole requests of clients of any version: a current command from one
\* route, an obsoleted one from the other.
AllRequests(secure) ==
    {[route |-> "R1", command |-> c, payload |-> "P", error |-> success,
      secure |-> secure] : c \in CurrentCommands}
    \cup
    {[route |-> "R2", command |-> c, payload |-> "P", error |-> success,
      secure |-> secure] : c \in ObsoletedCommands}

ReceivableAll(secure, ec) ==
    IF ec = success THEN AllRequests(secure) ELSE Receivable(secure, ec)

-----------------------------------------------------------------------------
\* Handlers (bc::server::address, blockchain, transaction_pool, protocol).

\* The response a handler computes: message(request, result) with its data.
HandlerResponse(req) ==
    [route |-> req.route, command |-> req.command, payload |-> "result",
     error |-> success, secure |-> req.secure]

\* A handler invokes its sink before returning, or later from another thread.
HandlerModes == {"sync", "async"}

-----------------------------------------------------------------------------
\* query() and send().

DealerId == "dealer"

\* std::bind(&query_worker::send, _1, std::ref(dealer)).
Sink(socket) == [socket |-> socket]

\* The lookup written command_handlers_[request.command()]: a miss inserts an
\* empty handler.
find_by_index(handlers, command) ==
    IF command \in DOMAIN handlers
    THEN [found |-> TRUE, handler |-> handlers[command], handlers |-> handlers]
    ELSE [found |-> FALSE, handler |-> Handler("", ""),
          handlers |-> attach(handlers, command, Handler("", ""))]

\* The lookup returning begin(), the entry of the least key
\* ("address.subscribe2"), whenever the command is present.
find_begin(handlers, command) ==
    IF command \in DOMAIN handlers
    THEN [found |-> TRUE, handler |-> handlers["address.subscribe2"],
          handlers |-> handlers]
    ELSE [found |-> FALSE, handler |-> Handler("", ""), handlers |-> handlers]

\* command_handlers_.find(request.command()): the entry, or end(); the map is
\* returned as the call leaves it.
find(handlers, command) ==
    IF command \in DOMAIN handlers
    THEN [found |-> TRUE, handler |-> handlers[command], handlers |-> handlers]
    ELSE [found |-> FALSE, handler |-> Handler("", ""), handlers |-> handlers]

\* send() warning about every failed write, the stopped service included.
send_warn_stopped(response, ec) ==
    [msg |-> response, ec |-> ec, logged |-> (ec /= success)]

\* send(response, dealer): one write, and a warning unless the write
\* succeeded or the service is stopped.
send(response, ec) ==
    [msg |-> response, ec |-> ec,
     logged |-> (ec /= success /\ ec /= service_stopped)]

\* query() dropping a request whose command is not attached.
dispatch_drop_unknown(handlers, req, ec) ==
    IF ec = service_stopped
    THEN [kind |-> "drop", looked |-> FALSE, handlers |-> handlers]
    ELSE IF ec /= success
    THEN [kind |-> "respond", looked |-> FALSE, handlers |-> handlers,
          response |-> message_response(req, ec)]
    ELSE LET h == find(handlers, req.command) IN
         IF ~h.found
         THEN [kind |-> "drop", looked |-> TRUE, handlers |-> h.handlers]
         ELSE [kind |-> "execute", looked |-> TRUE, handlers |-> h.handlers,
               handler |-> h.handler, request |-> req,
               sink |-> Sink(DealerId)]

\* query() without the test of a failed receive: only the stopped service
\* keeps the envelope from the lookup.
dispatch_ignore_error(handlers, req, ec) ==
    IF ec = service_stopped
    THEN [kind |-> "drop", looked |-> FALSE, handlers |-> handlers]
    ELSE LET h == find(handlers, req.command) IN
         IF ~h.found
         THEN [kind |-> "respond", looked |-> TRUE, handlers |-> h.handlers,
               response |-> message_response(req, not_found)]
         ELSE [kind |-> "execute", looked |-> TRUE, handlers |-> h.handlers,
               handler |-> h.handler, request |-> req,
               sink |-> Sink(DealerId)]

\* query() building its error responses from a fresh envelope, not from the
\* request.
dispatch_fresh_response(handlers, req, ec) ==
    IF ec = service_stopped
    THEN [kind |-> "drop", looked |-> FALSE, handlers |-> handlers]
    ELSE IF ec /= success
    THEN [kind |-> "respond", looked |-> FALSE, handlers |-> handlers,
          response |-> message_response(message(req.secure), ec)]
    ELSE LET h == find(handlers, req.command) IN
         IF ~h.found
         THEN [kind |-> "respond", looked |-> TRUE, handlers |-> h.handlers,
               response |-> message_response(message(req.secure), not_found)]
         ELSE [kind |-> "execute", looked |-> TRUE, handlers |-> h.handlers,
               handler |-> h.handler, request |-> req,
               sink |-> Sink(DealerId)]

\* What query() does with a received envelope and its code: drop it, respond
\* with an error, or execute the handler located for its command.
dispatch(handlers, req, ec) ==
    IF ec = service_stopped
    THEN [kind |-> "drop", looked |-> FALSE, handlers |-> handlers]
    ELSE IF ec /= success
    THEN [kind |-> "respond", looked |-> FALSE, handlers |-> handlers,
          response |-> message_response(req, ec)]
    ELSE LET h == find(handlers, req.command) IN
         IF ~h.found
         THEN [kind |-> "respond", looked |-> TRUE, handlers |-> h.handlers,
               response |-> message_response(req, not_found)]
         ELSE [kind |-> "execute", looked |-> TRUE, handlers |-> h.handlers,
               handler |-> h.handler, request |-> req,
               sink |-> Sink(DealerId)]

-----------------------------------------------------------------------------
\* The state after construction, before work() runs.

NoStop == [none |-> TRUE]

Init ==
    /\ \E secure \in BOOLEAN :
          /\ secure_ = query_worker(secure).secure_
          /\ command_handlers_ = query_worker(secure).command_handlers_
    /\ pc = "work"
    /\ stop = FALSE
    /\ terminated = FALSE
    /\ dealer = [state |-> "none", endpoint |-> ""]
    /\ outgoing = NoRequest
    /\ pending = {}
    /\ received = <<>>
    /\ lookups = {}
    /\ invoked = <<>>
    /\ sent = <<>>
    /\ run = [connects |-> 0, disconnects |-> 0, waited |-> FALSE,
              reported |-> FALSE, started |-> "none", finished |-> FALSE]
    /\ stopSeen = NoStop
    /\ stopAt = NoStop
    /\ hazard = [overlapped |-> FALSE, closed |-> FALSE]

-----------------------------------------------------------------------------
\* work(): connect, loop, disconnect.

\* work() entering the loop whatever connect() returned.
Connect_no_return ==
    /\ pc = "work"
    /\ \E ec \in {success, operation_failed} :
          /\ dealer' = IF ec = success
                       THEN [state |-> "connected",
                             endpoint |-> Endpoint(secure_)]
                       ELSE [state |-> "failed", endpoint |-> ""]
          /\ run' = [run EXCEPT !.connects = @ + 1,
                                !.started = IF ec = success THEN "true"
                                            ELSE "false"]
    /\ pc' = "loop"
    /\ UNCHANGED <<secure_, command_handlers_, stop, terminated, outgoing,
                   pending, received, lookups, invoked, sent, stopSeen,
                   stopAt, hazard>>

\* connect(dealer), and started() with its result; a failure returns.
Connect ==
    /\ pc = "work"
    /\ \E ec \in {success, operation_failed} :
          IF ec = success
          THEN /\ dealer' = [state |-> "connected",
                             endpoint |-> Endpoint(secure_)]
               /\ run' = [run EXCEPT !.connects = @ + 1, !.started = "true"]
               /\ pc' = "loop"
          ELSE /\ dealer' = [state |-> "destroyed", endpoint |-> ""]
               /\ run' = [run EXCEPT !.connects = @ + 1, !.started = "false"]
               /\ pc' = "done"
    /\ UNCHANGED <<secure_, command_handlers_, stop, terminated, outgoing,
                   pending, received, lookups, invoked, sent, stopSeen,
                   stopAt, hazard>>

\* The loop condition without the stopped() test.
LoopCondition_terminated_only(isTerminated, isStopped) == ~isTerminated

\* while (!poller.terminated() && !stopped()).
LoopCondition(isTerminated, isStopped) == ~isTerminated /\ ~isStopped

\* work() returning from the loop without the disconnect.
Loop_return ==
    /\ pc = "loop"
    /\ IF LoopCondition(terminated, stop)
       THEN pc' = "wait" /\ UNCHANGED dealer
       ELSE pc' = "done" /\ dealer' = [dealer EXCEPT !.state = "destroyed"]
    /\ run' = [run EXCEPT !.reported = FALSE]
    /\ UNCHANGED <<secure_, command_handlers_, stop, terminated,
                   outgoing, pending, received, lookups, invoked, sent,
                   stopSeen,
                   stopAt, hazard>>

Loop ==
    /\ pc = "loop"
    /\ pc' = IF LoopCondition(terminated, stop) THEN "wait" ELSE "disconnect"
    /\ run' = [run EXCEPT !.reported = FALSE]
    /\ UNCHANGED <<secure_, command_handlers_, stop, terminated, dealer,
                   outgoing, pending, received, lookups, invoked, sent,
                   stopSeen,
                   stopAt, hazard>>

\* poller.wait(): reports the dealer, nothing, or the context's termination;
\* the dealer has input at most max times in a run.
WaitUpTo(max) ==
    /\ pc = "wait"
    /\ \E outcome \in {"ready", "empty", "terminated"} :
          /\ outcome = "ready" => Len(received) < max
          /\ terminated' = (outcome = "terminated")
          /\ pc' = IF outcome = "ready" THEN "query" ELSE "loop"
          /\ stopSeen' = IF stopSeen /= NoStop /\ outcome = "ready"
                         THEN [stopSeen EXCEPT !.ready = TRUE]
                         ELSE stopSeen
          /\ run' = [run EXCEPT !.waited = TRUE,
                                !.reported = (outcome = "ready")]
    /\ UNCHANGED <<secure_, command_handlers_, stop, dealer, outgoing,
                   pending, received, lookups, invoked, sent, stopAt,
                   hazard>>

\* work() calling query(dealer) whenever the wait returns without the
\* termination, whether or not it reports the dealer.
Wait_always_query ==
    /\ pc = "wait"
    /\ \E outcome \in {"ready", "empty", "terminated"} :
          /\ outcome /= "terminated" => Len(received) < MaxRequests
          /\ terminated' = (outcome = "terminated")
          /\ pc' = IF outcome /= "terminated" THEN "query" ELSE "loop"
          /\ stopSeen' = IF stopSeen /= NoStop /\ outcome = "ready"
                         THEN [stopSeen EXCEPT !.ready = TRUE]
                         ELSE stopSeen
          /\ run' = [run EXCEPT !.waited = TRUE,
                                !.reported = (outcome = "ready")]
    /\ UNCHANGED <<secure_, command_handlers_, stop, dealer, outgoing,
                   pending, received, lookups, invoked, sent, stopAt,
                   hazard>>

Wait == WaitUpTo(MaxRequests)

\* disconnect(dealer), finished() with its result (dealer.stop() succeeding or
\* not selects the log line and the value reported), and the return from work().
Disconnect ==
    /\ pc = "disconnect"
    /\ run' = [run EXCEPT !.disconnects = @ + 1, !.finished = TRUE]
    /\ dealer' = [dealer EXCEPT !.state = "destroyed"]
    /\ pc' = "done"
    /\ UNCHANGED <<secure_, command_handlers_, stop, terminated, outgoing,
                   pending, received, lookups, invoked, sent, stopSeen,
                   stopAt, hazard>>

-----------------------------------------------------------------------------
\* query(): the stop check, then receive and dispatch.

\* query() without its stopped() test.
QueryEntry_unchecked ==
    /\ pc = "query"
    /\ pc' = "receive"
    /\ UNCHANGED <<secure_, command_handlers_, stop, terminated, dealer,
                   outgoing, pending, received, lookups, invoked, sent, run,
                   stopSeen,
                   stopAt, hazard>>

\* query() testing the poller's termination in place of stopped().
QueryEntry_terminated ==
    /\ pc = "query"
    /\ pc' = IF terminated THEN "loop" ELSE "receive"
    /\ UNCHANGED <<secure_, command_handlers_, stop, terminated, dealer,
                   outgoing, pending, received, lookups, invoked, sent, run,
                   stopSeen, stopAt, hazard>>

QueryEntry ==
    /\ pc = "query"
    /\ pc' = IF stop THEN "loop" ELSE "receive"
    /\ UNCHANGED <<secure_, command_handlers_, stop, terminated, dealer,
                   outgoing, pending, received, lookups, invoked, sent, run,
                   stopSeen,
                   stopAt, hazard>>

\* request.receive(dealer) returns one of the envelopes receivable with its
\* code, and query() runs to its return or to the write of a response made on
\* this thread.
ReceiveFrom(receivable) ==
    /\ pc = "receive"
    /\ \E ec \in ReceiveCodes : \E req \in receivable[ec] :
       \E mode \in HandlerModes :
          LET n == Len(received) + 1
              d == dispatch(command_handlers_, req, ec)
          IN  /\ received' = Append(received,
                                    [msg |-> req, ec |-> ec,
                                     socket |-> DealerId])
              /\ command_handlers_' = d.handlers
              /\ lookups' = IF d.looked THEN lookups \cup {n} ELSE lookups
              /\ CASE d.kind = "drop" ->
                        /\ mode = "sync"
                        /\ pc' = "loop"
                        /\ UNCHANGED <<outgoing, pending, invoked>>
                   [] d.kind = "respond" ->
                        /\ mode = "sync"
                        /\ outgoing' = [msg |-> d.response, origin |-> n,
                                        socket |-> DealerId]
                        /\ pc' = "send"
                        /\ UNCHANGED <<pending, invoked>>
                   [] d.kind = "execute" ->
                        /\ invoked' = Append(invoked,
                                             [origin |-> n,
                                              handler |-> d.handler,
                                              request |-> d.request,
                                              sink |-> d.sink])
                        /\ IF mode = "sync"
                           THEN /\ outgoing' =
                                      [msg |-> HandlerResponse(d.request),
                                       origin |-> n,
                                       socket |-> d.sink.socket]
                                /\ pc' = "send"
                                /\ UNCHANGED pending
                           ELSE /\ pending' = pending \cup
                                      {[msg |-> HandlerResponse(d.request),
                                        origin |-> n,
                                        socket |-> d.sink.socket]}
                                /\ pc' = "loop"
                                /\ UNCHANGED outgoing
    /\ UNCHANGED <<secure_, stop, terminated, dealer, sent, run, stopSeen,
                   stopAt, hazard>>

Receive == ReceiveFrom([ec \in ReceiveCodes |-> Receivable(secure_, ec)])

\* The writes made so far for the request of a receive.
SentForOrigin(i) == {j \in 1..Len(sent) : sent[j].origin = i}

\* What a write through the socket, made while the worker thread is or is not
\* inside a transport call of its own, adds to the hazards seen so far.
Written(h, dealerState, workerBusy) ==
    [overlapped |-> h.overlapped \/ workerBusy,
     closed |-> h.closed \/ dealerState /= "connected"]

\* The worker thread's write put ahead of the writes already made.
Send_front ==
    /\ pc = "send"
    /\ \E ec \in SendCodes :
          sent' = <<[origin |-> outgoing.origin,
                     socket |-> outgoing.socket,
                     thread |-> "worker"] @@ send(outgoing.msg, ec)>> \o sent
    /\ hazard' = Written(hazard, dealer.state, FALSE)
    /\ outgoing' = NoRequest
    /\ pc' = "loop"
    /\ UNCHANGED <<secure_, command_handlers_, stop, terminated, dealer,
                   pending, received, lookups, invoked, run, stopSeen,
                   stopAt>>

\* A failed write (other than for the stopped service) ending the loop.
Send_fatal ==
    /\ pc = "send"
    /\ \E ec \in SendCodes :
          /\ sent' = Append(sent,
                            [origin |-> outgoing.origin,
                             socket |-> outgoing.socket,
                             thread |-> "worker"] @@ send(outgoing.msg, ec))
          /\ pc' = IF ec = operation_failed THEN "disconnect" ELSE "loop"
    /\ hazard' = Written(hazard, dealer.state, FALSE)
    /\ outgoing' = NoRequest
    /\ UNCHANGED <<secure_, command_handlers_, stop, terminated, dealer,
                   pending, received, lookups, invoked, run, stopSeen,
                   stopAt>>

\* A failed write (other than for the stopped service) made again.
Send_retry ==
    /\ pc = "send"
    /\ \E ec \in SendCodes :
          /\ sent' = Append(sent,
                            [origin |-> outgoing.origin,
                             socket |-> outgoing.socket,
                             thread |-> "worker"] @@ send(outgoing.msg, ec))
          /\ pc' = IF ec = operation_failed /\ SentForOrigin(outgoing.origin) = {}
                   THEN "send" ELSE "loop"
          /\ outgoing' = IF pc' = "send" THEN outgoing ELSE NoRequest
    /\ hazard' = Written(hazard, dealer.state, FALSE)
    /\ UNCHANGED <<secure_, command_handlers_, stop, terminated, dealer,
                   pending, received, lookups, invoked, run, stopSeen,
                   stopAt>>

\* The write of send(response, dealer) on the worker thread completes.
Send ==
    /\ pc = "send"
    /\ \E ec \in SendCodes :
          sent' = Append(sent,
                         [origin |-> outgoing.origin,
                          socket |-> outgoing.socket,
                          thread |-> "worker"] @@ send(outgoing.msg, ec))
    /\ hazard' = Written(hazard, dealer.state, FALSE)
    /\ outgoing' = NoRequest
    /\ pc' = "loop"
    /\ UNCHANGED <<secure_, command_handlers_, stop, terminated, dealer,
                   pending, received, lookups, invoked, run, stopSeen,
                   stopAt>>

\* A handler that completes on another thread invokes its sink: the write is
\* made through the reference to work()'s dealer, whatever the worker thread
\* is doing and whether or not work() has returned (the reference then
\* dangles, and the write may end in any way).
AsyncSend ==
    /\ \E p \in pending : \E ec \in SendCodes :
          /\ pending' = pending \ {p}
          /\ sent' = Append(sent,
                            [origin |-> p.origin,
                             socket |-> p.socket,
                             thread |-> "handler"] @@ send(p.msg, ec))
    /\ hazard' = Written(hazard, dealer.state, pc \in {"receive", "send"})
    /\ UNCHANGED <<secure_, command_handlers_, pc, stop, terminated, dealer,
                   outgoing, received, lookups, invoked, run, stopSeen,
                   stopAt>>

\* Another thread sets the worker's stopped flag.
Stop ==
    /\ ~stop
    /\ pc /= "done"
    /\ stop' = TRUE
    /\ stopSeen' = IF pc = "wait"
                   THEN [received |-> Len(received), invoked |-> Len(invoked),
                         ready |-> FALSE]
                   ELSE stopSeen
    /\ stopAt' = [received |-> Len(received), receiving |-> pc = "receive"]
    /\ UNCHANGED <<secure_, command_handlers_, pc, terminated, dealer,
                   outgoing, pending, received, lookups, invoked, sent, run,
                   hazard>>

Next ==
    \/ Connect
    \/ Loop
    \/ Wait
    \/ QueryEntry
    \/ Receive
    \/ Send
    \/ AsyncSend
    \/ Disconnect
    \/ Stop

Spec == Init /\ [][Next]_vars

\* The worker serving clients of any version.
WaitAll == WaitUpTo(MaxAllRequests)

ReceiveAll ==
    ReceiveFrom([ec \in ReceiveCodes |-> ReceivableAll(secure_, ec)])

NextAll ==
    \/ Connect
    \/ Loop
    \/ WaitAll
    \/ QueryEntry
    \/ ReceiveAll
    \/ Send
    \/ AsyncSend
    \/ Disconnect
    \/ Stop

SpecAll == Init /\ [][NextAll]_vars

\* The worker thread runs: a step of work() or query() that can be taken is
\* taken in the end.  The poller has input (or the receive fails) when
\* receive is called, and the dealer drops rather than blocks a write, so
\* both return.  Nothing makes poller.wait() return, the stop signal arrive
\* or a handler complete.
Fairness ==
    /\ WF_vars(Connect)
    /\ WF_vars(Loop)
    /\ WF_vars(QueryEntry)
    /\ WF_vars(Receive)
    /\ WF_vars(Send)
    /\ WF_vars(Disconnect)

FairSpec == Init /\ [][Next]_vars /\ Fairness

-----------------------------------------------------------------------------
\* Reading the history.

Received == 1..Len(received)

\* The handler invocations made for the i-th receive.
InvokedFor(i) == {k \in 1..Len(invoked) : invoked[k].origin = i}

\* The writes attempted for the i-th receive.
SentFor(i) == {j \in 1..Len(sent) : sent[j].origin = i}

\* The worker thread is still inside its write for the i-th receive.
Sending(i) == pc = "send" /\ outgoing.origin = i

\* The i-th receive succeeded and names an attached / an unattached command.
Attached(i) ==
    /\ received[i].ec = success
    /\ received[i].msg.command \in DOMAIN command_handlers_

Unattached(i) ==
    /\ received[i].ec = success
    /\ received[i].msg.command \notin DOMAIN command_handlers_

\* The i-th receive failed, and not because the service is stopped.
Failed(i) == received[i].ec \notin {success, service_stopped}

\* C1: a request received without error whose command is attached has exactly
\* one handler invocation, of the handler attached for that command, with that
\* request and a sink bound to the socket it came from; the worker builds no
\* error response for it.
C1_AttachedCommandInvokesItsHandler ==
    /\ \A i \in Received : Attached(i) =>
          /\ Cardinality(InvokedFor(i)) = 1
          /\ \A k \in InvokedFor(i) :
                /\ invoked[k].handler =
                      command_handlers_[received[i].msg.command]
                /\ invoked[k].request = received[i].msg
                /\ invoked[k].sink = Sink(received[i].socket)
          /\ \A j \in SentFor(i) : sent[j].msg.error = success
          /\ Sending(i) => outgoing.msg.error = success
    /\ \A k \in 1..Len(invoked) :
          invoked[k].origin \in Received /\ Attached(invoked[k].origin)

\* Both attached commands of the requests have been dispatched, each to its
\* own handler.
C1_Witness ==
    /\ Len(invoked) = 2
    /\ invoked[1].handler /= invoked[2].handler
    /\ \A k \in 1..2 : Attached(invoked[k].origin)

\* C2: a request received without error whose command is not attached gets one
\* response from the worker, carrying not_found and the request's route, and
\* no handler invocation.
C2_UnattachedCommandNotFound ==
    \A i \in Received : Unattached(i) =>
        /\ InvokedFor(i) = {}
        /\ Cardinality(SentFor(i)) = IF Sending(i) THEN 0 ELSE 1
        /\ \A j \in SentFor(i) :
              /\ sent[j].msg.error = not_found
              /\ sent[j].msg.route = received[i].msg.route
              /\ sent[j].thread = "worker"
        /\ Sending(i) =>
              /\ outgoing.msg.error = not_found
              /\ outgoing.msg.route = received[i].msg.route

\* The response to an unattached command has been written.
C2_Witness ==
    \E i \in Received : Unattached(i) /\ SentFor(i) /= {}

\* C3: a receive that fails with a code other than service_stopped gets one
\* response from the worker, carrying that code and the route of the envelope
\* as received, with no registry lookup and no handler invocation.
C3_ReceiveFailureAnswered ==
    \A i \in Received : Failed(i) =>
        /\ i \notin lookups
        /\ InvokedFor(i) = {}
        /\ Cardinality(SentFor(i)) = IF Sending(i) THEN 0 ELSE 1
        /\ \A j \in SentFor(i) :
              /\ sent[j].msg.error = received[i].ec
              /\ sent[j].msg.route = received[i].msg.route
              /\ sent[j].thread = "worker"
        /\ Sending(i) =>
              /\ outgoing.msg.error = received[i].ec
              /\ outgoing.msg.route = received[i].msg.route

\* The response to a failed receive has been written, its envelope naming an
\* attached command.
C3_Witness ==
    \E i \in Received :
        /\ Failed(i)
        /\ received[i].msg.command \in DOMAIN command_handlers_
        /\ SentFor(i) /= {}

\* C4: a receive that fails with service_stopped is followed by no write, no
\* lookup and no handler invocation for it; a write that fails with
\* service_stopped is not logged, and no other write is made for its response.
C4_StoppedIsSilent ==
    /\ \A i \in Received : received[i].ec = service_stopped =>
          /\ SentFor(i) = {}
          /\ InvokedFor(i) = {}
          /\ i \notin lookups
          /\ ~Sending(i)
          /\ \A p \in pending : p.origin /= i
    /\ \A j \in 1..Len(sent) : sent[j].ec = service_stopped =>
          /\ ~sent[j].logged
          /\ SentFor(sent[j].origin) = {j}
          /\ ~Sending(sent[j].origin)
          /\ \A p \in pending : p.origin /= sent[j].origin

\* A receive and a later write have both met the stopped service, and the
\* worker went on to its loop condition.
C4_Witness ==
    /\ \E i \in Received : received[i].ec = service_stopped
    /\ \E j \in 1..Len(sent) : sent[j].ec = service_stopped
    /\ pc = "loop"

\* C5: once the stop flag is set while the loop is in poller.wait(), nothing
\* more is received or dispatched, whatever the wait reports; the worker only
\* moves on to its exit, and has disconnected once when it is done.
C5_StopInWaitExits ==
    stopSeen /= NoStop =>
        /\ Len(received) = stopSeen.received
        /\ Len(invoked) = stopSeen.invoked
        /\ pc \in {"wait", "query", "loop", "disconnect", "done"}
        /\ run.disconnects = IF pc = "done" THEN 1 ELSE 0

\* The flag was set in the wait, the wait then reported the dealer, and the
\* run has ended.
C5_Witness ==
    /\ stopSeen /= NoStop
    /\ stopSeen.ready
    /\ pc = "done"

\* C6: connect is attempted at most once; when it fails the run is over at
\* once, having waited for, received, dispatched and sent nothing.
C6_ConnectFailureEndsRun ==
    /\ run.connects <= 1
    /\ run.started = "false" =>
          /\ pc = "done"
          /\ run.connects = 1
          /\ ~run.waited
          /\ received = <<>>
          /\ lookups = {}
          /\ invoked = <<>>
          /\ sent = <<>>
          /\ pending = {}
          /\ outgoing = NoRequest

\* A run whose connect failed.
C6_Witness ==
    /\ run.started = "false"
    /\ run.connects = 1
    /\ pc = "done"

\* C7 as claimed: every run that has ended has disconnected exactly once.
C7_DisconnectOnEveryPath ==
    pc = "done" => run.disconnects = 1

\* C7, amended: disconnect is never performed twice; a run that has ended has
\* disconnected exactly once if its connect succeeded, and never if its
\* connect failed; a run that has not ended has not disconnected.
C7_DisconnectOnceAfterConnect ==
    /\ run.disconnects <= 1
    /\ pc = "done" =>
          run.disconnects = IF run.started = "true" THEN 1 ELSE 0
    /\ pc /= "done" => run.disconnects = 0

\* A run that connected, received a request and ended with its disconnect.
C7_Witness ==
    /\ pc = "done"
    /\ run.started = "true"
    /\ run.disconnects = 1
    /\ Len(received) > 0

\* C8: every write carries the route of the request it answers, which is a
\* request that was received before, and not one lost to the stopped service.
C8_ResponseRouteIsRequestRoute ==
    \A j \in 1..Len(sent) :
        /\ sent[j].origin \in Received
        /\ received[sent[j].origin].ec /= service_stopped
        /\ sent[j].msg.route = received[sent[j].origin].msg.route

\* An error response of the worker and a response delivered through a
\* handler's sink from another thread have been written to different routes.
C8_Witness ==
    \E j, k \in 1..Len(sent) :
        /\ sent[j].msg.error /= success
        /\ sent[k].thread = "handler"
        /\ sent[j].msg.route /= sent[k].msg.route

\* C9: no step changes the registry, and it holds one entry for each command
\* the constructor attached.
C9_RegistryNeverMutated ==
    /\ [][command_handlers_' = command_handlers_]_vars
    /\ [](Cardinality(DOMAIN command_handlers_) = Len(Interface))

\* The registry has been searched for an attached and for an unattached
\* command.
C9_Witness ==
    \E i, k \in lookups : Attached(i) /\ Unattached(k)

\* The other worker of the same configuration: its registry, and what its
\* query() does with the same envelope and code.
OtherRegistry == query_worker(~secure_).command_handlers_

OtherDispatch(i) ==
    dispatch(OtherRegistry, [received[i].msg EXCEPT !.secure = ~secure_],
             received[i].ec)

\* C10: the secure and the public worker hold the same registry and do the
\* same with every envelope received, as far as the wire shows; the endpoint
\* connected to is the secure one exactly when the secure flag is set.
C10_SecureAndPublicAgree ==
    /\ query_worker(TRUE).command_handlers_ =
          query_worker(FALSE).command_handlers_
    /\ command_handlers_ = OtherRegistry
    /\ secure_worker /= public_worker
    /\ dealer.state = "connected" =>
          /\ dealer.endpoint = secure_worker <=> secure_
          /\ dealer.endpoint = public_worker <=> ~secure_
    /\ \A i \in Received :
          LET d == dispatch(command_handlers_, received[i].msg,
                            received[i].ec)
              e == OtherDispatch(i)
          IN  /\ d.kind = e.kind
              /\ d.kind = "respond" =>
                    Wire(d.response) = Wire(e.response)
              /\ d.kind = "execute" =>
                    /\ d.handler = e.handler
                    /\ d.sink = e.sink
                    /\ Wire(HandlerResponse(d.request)) =
                          Wire(HandlerResponse(e.request))

\* A secure worker is connected and has received what the bound allows.
C10_Witness ==
    /\ secure_
    /\ dealer.state = "connected"
    /\ dealer.endpoint = secure_worker
    /\ Len(received) > 1

\* C11 as claimed: the writes are made in the order in which their requests
\* were received.
C11_ResponsesInRequestOrder ==
    \A j, k \in 1..Len(sent) :
        j < k => sent[j].origin < sent[k].origin

\* C11, amended: the responses written on the worker thread (its error
\* responses, and those of handlers that invoke the sink before returning)
\* are written in the order in which their requests were received, each
\* before the next request is received; a response delivered later from
\* another thread may follow responses to later requests.
C11_WorkerThreadResponsesInOrder ==
    /\ \A j, k \in 1..Len(sent) :
          (j < k /\ sent[j].thread = "worker" /\ sent[k].thread = "worker")
             => sent[j].origin < sent[k].origin
    /\ \A i \in Received : Sending(i) => i = Len(received)
    /\ pc = "receive" => outgoing = NoRequest

\* An error response and then a handler's response to a later request have
\* been written on the worker thread.
C11_Witness ==
    \E j, k \in 1..Len(sent) :
        /\ j < k
        /\ sent[j].thread = "worker" /\ sent[j].msg.error /= success
        /\ sent[k].thread = "worker" /\ sent[k].msg.error = success
        /\ sent[j].origin < sent[k].origin

\* C12: a request naming an obsoleted command is handed to no handler and is
\* answered by the worker with not_found on the request's route; a request
\* naming one of the 18 current commands is handed once to the handler of
\* that very class and method.
C12_ObsoletedNotFoundCurrentRouted ==
    /\ DOMAIN command_handlers_ = CurrentCommands
    /\ \A i \in Received : received[i].ec = success =>
          LET cmd == received[i].msg.command IN
          /\ cmd \in ObsoletedCommands =>
                /\ InvokedFor(i) = {}
                /\ Cardinality(SentFor(i)) = IF Sending(i) THEN 0 ELSE 1
                /\ \A j \in SentFor(i) :
                      /\ sent[j].msg.error = not_found
                      /\ sent[j].msg.route = received[i].msg.route
                /\ Sending(i) =>
                      /\ outgoing.msg.error = not_found
                      /\ outgoing.msg.route = received[i].msg.route
          /\ cmd \in CurrentCommands =>
                /\ Cardinality(InvokedFor(i)) = 1
                /\ \A k \in InvokedFor(i) :
                      /\ invoked[k].handler.class \o "."
                            \o invoked[k].handler.method = cmd
                      /\ invoked[k].request = received[i].msg
                /\ \A j \in SentFor(i) : sent[j].msg.error = success

\* The request for address.renew has been answered.
C12_Witness ==
    \E i \in Received :
        /\ received[i].ec = success
        /\ received[i].msg.command = "address.renew"
        /\ \E j \in SentFor(i) : sent[j].msg.error = not_found

C14_OneReceivePerReadyIteration ==
    /\ [](pc \in {"query", "receive", "send"} => run.reported)
    /\ [][/\ (pc' = "receive" /\ pc /= "receive") =>
                (pc = "query" /\ ~stop /\ run.reported)
          /\ (pc' = "query" /\ pc /= "query") =>
                (pc = "wait" /\ run'.reported)
          /\ received' /= received =>
                /\ pc = "receive" /\ pc' \in {"loop", "send"}
                /\ Len(received') = Len(received) + 1
          /\ invoked' /= invoked => received' /= received
          /\ (pc = "send" /\ pc' /= "send") => pc' = "loop"
          /\ (pc = "loop" /\ pc' /= "loop") =>
                (pc' \in {"wait", "disconnect"} /\ ~run'.reported)
          /\ (Len(sent') > Len(sent) /\ sent'[Len(sent')].thread = "worker")
                => pc = "send"
          /\ (pc = "wait" /\ pc' = "loop") =>
                UNCHANGED <<received, lookups, invoked, sent, outgoing,
                            pending>>
         ]_vars

\* A second request is being received, in a later iteration than the first.
C14_Witness ==
    /\ pc = "receive"
    /\ Len(received) = 1
    /\ run.reported
    /\ ~stop

\* The worker is back at its loop condition after an error: the last receive
\* failed or named an unattached command, or the last write of the worker
\* thread failed.
AfterError ==
    /\ pc = "loop"
    /\ \/ /\ Len(received) > 0
          /\ Failed(Len(received)) \/ Unattached(Len(received))
       \/ /\ Len(sent) > 0
          /\ sent[Len(sent)].thread = "worker"
          /\ sent[Len(sent)].ec /= success

\* C15: the loop is left only at its condition, with the stop flag set or the
\* poller terminated; every receive and every write, whatever their codes,
\* lead back to the loop condition; after an error the worker is again in the
\* wait unless it is stopped or terminated; and every attached command
\* received has had its handler invoked, whatever went wrong before.
C15_ErrorsDoNotEndLoop ==
    /\ [][/\ (pc' = "disconnect" /\ pc /= "disconnect") =>
                (pc = "loop" /\ (stop \/ terminated))
          /\ (pc' = "done" /\ pc /= "done") =>
                (pc = "disconnect" \/ (pc = "work" /\ run'.started = "false"))
          /\ (pc = "receive" /\ pc' /= pc) => pc' \in {"loop", "send"}
          /\ (pc = "send" /\ pc' /= pc) => pc' = "loop"
          /\ (pc = "loop" /\ ~stop /\ ~terminated /\ pc' /= pc) =>
                pc' = "wait"
         ]_vars
    /\ [](\A i \in Received : Attached(i) => InvokedFor(i) /= {})
    /\ AfterError ~> (pc = "wait" \/ stop \/ terminated)

\* A receive failed and the write of its error response failed; the next
\* request, for an attached command, has been handed to its handler, and the
\* worker is in the wait again.
C15_Witness ==
    /\ Len(received) = 2
    /\ Failed(1)
    /\ \E j \in SentFor(1) : sent[j].ec = operation_failed
    /\ Attached(2) /\ InvokedFor(2) /= {}
    /\ pc = "wait"

\* C16: a loop condition that observes the stop flag or the termination is
\* followed by the disconnect, never by the wait; the disconnect is followed
\* by the end of the run only; and once the flag is set or the poller
\* terminated, with the worker out of its wait, the run ends disconnected and
\* reported finished.
C16_StopOrTerminationEndsRun ==
    /\ [][/\ (pc = "loop" /\ (stop \/ terminated) /\ pc' /= pc) =>
                pc' = "disconnect"
          /\ pc \in {"disconnect", "done"} => pc' \in {"disconnect", "done"}
         ]_vars
    /\ ((stop \/ terminated)
           /\ pc \in {"loop", "query", "receive", "send", "disconnect"})
          ~> (pc = "done" /\ run.finished /\ run.disconnects = 1)

\* A run ended by the poller's termination, with the stop flag never set.
C16_Witness ==
    /\ pc = "done"
    /\ run.finished
    /\ terminated
    /\ ~stop

\* C17: no response is written twice: once a write has been attempted for a
\* request, whatever its code, no other write for it is made, in progress or
\* outstanding.
C17_OneWritePerResponse ==
    /\ \A j, k \in 1..Len(sent) :
          sent[j].origin = sent[k].origin => j = k
    /\ \A j \in 1..Len(sent) :
          /\ ~Sending(sent[j].origin)
          /\ \A p \in pending : p.origin /= sent[j].origin

\* A write of the worker thread failed, was logged, and the worker has since
\* received the next request.
C17_Witness ==
    \E j \in 1..Len(sent) :
        /\ sent[j].ec = operation_failed
        /\ sent[j].logged
        /\ sent[j].thread = "worker"
        /\ Len(received) > sent[j].origin

C19_AtMostOneReceiveAfterStop ==
    stopAt /= NoStop =>
        /\ Len(received) <= stopAt.received +
                               (IF stopAt.receiving THEN 1 ELSE 0)
        /\ pc = "receive" =>
              (stopAt.receiving /\ Len(received) = stopAt.received)
        /\ pc = "wait" => Len(received) = stopAt.received

\* The flag was set during a receive, the envelope was received all the same,
\* and the run has ended.
C19_Witness ==
    /\ stopAt /= NoStop
    /\ Len(received) = stopAt.received + 1
    /\ pc = "done"

====
